---- MODULE Spec2Model ----
(***************************************************************************)
(* Model of the four IntuneCD backup modules                               *)
(*   AppConfiguration, DeviceCompliance, GroupPolicyConfigurations, Roles  *)
(* Each module's main() is a chain of blocks separated by the calls it     *)
(* makes to its collaborators (make_graph_request, batch_request,          *)
(* process_data).  One action models one block: the call, the processing   *)
(* of its answer and the code up to the next call.                         *)
(*                                                                         *)
(* Strings that the code takes apart (ids, envelope ids) are sequences of  *)
(* atoms; the atom "/" is the separator character.  A Python dict is a     *)
(* function whose DOMAIN is its key set; an absent key is a key outside    *)
(* the DOMAIN.                                                             *)
(***************************************************************************)
EXTENDS Integers, Sequences, FiniteSets, TLC

VARIABLES
    module,          \* which backup module's main() runs
    exclude,         \* self.exclude contains "assignments"
    pc,              \* position in main()
    primary,         \* the primary fetch result as received (history)
    graph_data,      \* self.graph_data["value"], mutated in place
    maps,            \* the Resolution Maps built so far, by local name
    responses,       \* batch response envelopes received, by stage (as sets)
    calls,           \* collaborator calls issued so far, in order
    log,             \* number of error-level log messages
    ret,             \* how main() ended: "pending", "None", "results", "exception"
    fault            \* what went wrong in this run: "none", "primary", "persist",
                     \* "transport" (a dependent call raised), "malformed" (a
                     \* subscript of served data raised)

vars == <<module, exclude, pc, primary, graph_data, maps, responses, calls, log, ret, fault>>

(***************************************************************************)
(* Bounds                                                                  *)
(***************************************************************************)
MaxRecords == 2

(***************************************************************************)
(* Generic helpers: strings, dicts, sequences                              *)
(***************************************************************************)
S(a) == <<a>>

Range(s) == {s[i] : i \in 1..Len(s)}

Perms(set) ==
    {p \in [1..Cardinality(set) -> set] : \A x \in set : \E i \in DOMAIN p : p[i] = x}

RECURSIVE SeqsUpTo(_, _)
SeqsUpTo(set, n) ==
    IF n = 0 THEN {<<>>}
    ELSE LET shorter == SeqsUpTo(set, n - 1)
         IN  shorter \cup {Append(s, x) : s \in {t \in shorter : Len(t) = n - 1}, x \in set}

Has(d, k) == k \in DOMAIN d
Put(d, k, v) == [x \in DOMAIN d \cup {k} |-> IF x = k THEN v ELSE d[x]]
Pop(d, k) == [x \in DOMAIN d \ {k} |-> d[x]]
EmptyDict == <<>>

\* response.get("body") is truthy: the key is present and the dict is not empty
BodyTruthy(response) == Has(response, "body") /\ DOMAIN response.body # {}

\* an exception leaves main()
Raise(kind) == ret' = "exception" /\ fault' = kind /\ pc' = "done"

\* One entry of the call history.  ids is the set of item ids and n the
\* length of the item list, so n = Cardinality(ids) iff the list has no
\* duplicate.
Call(fn, stage, n, ids) == [fn |-> fn, stage |-> stage, n |-> n, ids |-> ids]

BatchCalls(stage) == {i \in 1..Len(calls) : calls[i].fn = "batch_request" /\ calls[i].stage = stage}

\* Ids of the primary Records: unique within one primary fetch result
IdAtoms == <<"p1", "p2", "p3", "p4">>
RecordId(i) == S(IdAtoms[i])

\* The values a primary fetch can return: up to MaxRecords Records, the
\* i-th with id RecordId(i) and the other fields drawn from `shapes`
PrimaryValues(shapes) ==
    UNION {{[i \in 1..n |-> [id |-> RecordId(i), shape |-> c[i]]] : c \in [1..n -> shapes]} :
              n \in 0..MaxRecords}

\* the same loop with the key read once, from the first response that has
\* a body, instead of from each response
RECURSIVE StaleKeyFold(_, _, _, _)
StaleKeyFold(resps, field, acc, key) ==
    IF resps = <<>> THEN [err |-> FALSE, map |-> acc]
    ELSE LET response == Head(resps) IN
         IF ~BodyTruthy(response) THEN StaleKeyFold(Tail(resps), field, acc, key)
         ELSE IF ~Has(response.body, "id") \/ (field # "" /\ ~Has(response.body, field))
              THEN [err |-> TRUE, map |-> acc]
              ELSE LET k == IF key = <<>> THEN <<response.body.id>> ELSE key
                   IN  StaleKeyFold(Tail(resps), field,
                           Put(acc, k[1], IF field = "" THEN response.body ELSE response.body[field]), k)
MapByBodyIdStaleKey(resps, field, acc) == StaleKeyFold(resps, field, acc, <<>>)

\* dict-building loop shared by the stages keyed by body id:
\*     for response in responses:
\*         if response.get("body"):
\*             map[body["id"]] = body            (field = "")
\*             map[body["id"]] = body[field]     (otherwise)
\* err is TRUE when a subscript raises KeyError.
RECURSIVE MapByBodyId(_, _, _)
MapByBodyId(resps, field, acc) ==
    IF resps = <<>> THEN [err |-> FALSE, map |-> acc]
    ELSE LET response == Head(resps) IN
         IF ~BodyTruthy(response) THEN MapByBodyId(Tail(resps), field, acc)
         ELSE IF ~Has(response.body, "id") \/ (field # "" /\ ~Has(response.body, field))
              THEN [err |-> TRUE, map |-> acc]
              ELSE MapByBodyId(Tail(resps), field,
                       Put(acc, response.body.id,
                           IF field = "" THEN response.body ELSE response.body[field]))

(***************************************************************************)
(* AppConfiguration                                                        *)
(***************************************************************************)
AppIdSet == {S("app1"), S("app2")}
AppName(app) == IF app = S("app1") THEN S("Foo") ELSE S("Bar")
AppType(app) == IF app = S("app1") THEN S("#t.App") ELSE S("#t.Other")

\* payloadJson as served: base64 text of a JSON document
EncodedPayload == [encoding |-> "base64", text |-> [encoding |-> "json", doc |-> [setting |-> S("v")]]]
decode_base64(value) == value.text
json_loads(text) == text.doc

AppRecord(id, shape) ==
    LET base == [id |-> id, targetedMobileApps |-> [list |-> shape.apps]]
    IN  IF shape.payload THEN Put(base, "payloadJson", EncodedPayload) ELSE base

AppShapes == [apps : SeqsUpTo(AppIdSet, 2), payload : BOOLEAN]

\* what the transport can answer for one requested app
AppBodyKinds == {"absent", "empty", "full", "noid", "noname"}
AppEnvelope(app, kind) ==
    LET full == [id |-> app, displayName |-> AppName(app), odata_type |-> AppType(app)]
    IN  CASE kind = "absent" -> [id |-> app]
          [] kind = "empty"  -> [id |-> app, body |-> EmptyDict]
          [] kind = "full"   -> [id |-> app, body |-> full]
          [] kind = "noid"   -> [id |-> app, body |-> Pop(full, "id")]
          [] kind = "noname" -> [id |-> app, body |-> Pop(full, "displayName")]

\* lines 52-55: app_ids = set(); for item: for app in item["targetedMobileApps"]: add
app_ids(value) ==
    UNION {Range(value[i].targetedMobileApps.list) : i \in 1..Len(value)}

\* the harvest without the set: one item per reference of each Record
RECURSIVE AllReferences(_)
AllReferences(value) ==
    IF value = <<>> THEN <<>>
    ELSE Head(value).targetedMobileApps.list \o AllReferences(Tail(value))
app_list_per_record(value) == {AllReferences(value)}

\* lines 52-60: the item lists the harvest can build, one item per element of
\* the set, in the set's iteration order
app_list(value) == Perms(app_ids(value))

\* lines 67-71
app_details_map(app_responses) == MapByBodyId(app_responses, "", EmptyDict)

\* lines 77-84: the first app of the list that app_details_map resolves
RECURSIVE FirstResolved(_, _)
FirstResolved(list, map) ==
    IF list = <<>> THEN <<>>
    ELSE IF Has(map, Head(list)) THEN <<Head(list)>>
    ELSE FirstResolved(Tail(list), map)

\* lines 75-88 for one item
AppMergeItem(item, map) ==
    LET hit == FirstResolved(item.targetedMobileApps.list, map)
        app_data == map[hit[1]]
        bad == hit # <<>> /\ (~Has(app_data, "displayName") \/ ~Has(app_data, "odata_type"))
        item1 == IF hit = <<>> \/ bad THEN item
                 ELSE [item EXCEPT !.targetedMobileApps =
                          [appName |-> app_data.displayName, type |-> app_data.odata_type]]
        item2 == IF Has(item1, "payloadJson")
                 THEN [item1 EXCEPT !.payloadJson = json_loads(decode_base64(item1.payloadJson))]
                 ELSE item1
    IN  [err |-> bad, item |-> item2]

\* lines 74-88 for all items
AppMerge(value, map) ==
    LET merged == [i \in 1..Len(value) |-> AppMergeItem(value[i], map)]
    IN  [err |-> \E i \in 1..Len(value) : merged[i].err,
         value |-> [i \in 1..Len(value) |-> merged[i].item]]

(***************************************************************************)
(* DeviceCompliance: the tree functions                                    *)
(* A JSON value is a tagged node: a mapping keeps its entries in insertion *)
(* order, a sequence its elements in index order.  A path element is a     *)
(* mapping key or a sequence index (counted from 0 as enumerate does).     *)
(***************************************************************************)
Sentinel == S("linux_customcompliance_discoveryscript")
None == S("<None>")

Scalar(v) == [t |-> "str", v |-> v]
Mapping(entries) == [t |-> "map", items |-> entries]
Sequence(elems) == [t |-> "list", items |-> elems]
Entry(k, v) == [k |-> k, v |-> v]
Key(k) == [key |-> k]
Index(i) == [idx |-> i]

NotFound == [found |-> FALSE]
Found(path) == [found |-> TRUE, path |-> path]

\* lines 42-48
RECURSIVE check_linux_discovery_script(_)
check_linux_discovery_script(data) ==
    IF data.t = "map"
    THEN \/ \E i \in 1..Len(data.items) : data.items[i].v = Scalar(Sentinel)
         \/ \E i \in 1..Len(data.items) : check_linux_discovery_script(data.items[i].v)
    ELSE IF data.t = "list"
    THEN \E i \in 1..Len(data.items) : check_linux_discovery_script(data.items[i])
    ELSE FALSE

\* lines 60-75; the loops over data.items() and enumerate(v) are unrolled
\* into get_id_entries and get_id_elems
RECURSIVE get_detection_script_id(_, _), get_id_entries(_, _, _), get_id_elems(_, _, _, _)
get_detection_script_id(data, path) ==
    IF data.t = "map" THEN get_id_entries(data.items, 1, path) ELSE NotFound

\* the entry loop that first looks for the sentinel among the values of the
\* mapping, as check_linux_discovery_script does, and only then descends
get_id_entries_values_first(entries, n, path) ==
    IF n > Len(entries) THEN NotFound
    ELSE IF n = 1 /\ \E i \in 1..Len(entries) : entries[i].v = Scalar(Sentinel) THEN Found(path)
    ELSE LET k == entries[n].k
             v == entries[n].v
         IN  IF v.t = "map"
             THEN LET new_path == get_detection_script_id(v, Append(path, Key(k)))
                  IN  IF new_path.found THEN new_path ELSE get_id_entries(entries, n + 1, path)
             ELSE IF v.t = "list"
             THEN LET new_path == get_id_elems(v.items, 1, k, path)
                  IN  IF new_path.found THEN new_path ELSE get_id_entries(entries, n + 1, path)
             ELSE get_id_entries(entries, n + 1, path)

get_id_entries(entries, n, path) ==
    IF n > Len(entries) THEN NotFound
    ELSE LET k == entries[n].k
             v == entries[n].v
         IN  IF v.t = "map"
             THEN LET new_path == get_detection_script_id(v, Append(path, Key(k)))
                  IN  IF new_path.found THEN new_path ELSE get_id_entries(entries, n + 1, path)
             ELSE IF v.t = "list"
             THEN LET new_path == get_id_elems(v.items, 1, k, path)
                  IN  IF new_path.found THEN new_path ELSE get_id_entries(entries, n + 1, path)
             ELSE IF v.v = Sentinel THEN Found(path)
             ELSE get_id_entries(entries, n + 1, path)

get_id_elems(elems, i, k, path) ==
    IF i > Len(elems) THEN NotFound
    ELSE LET new_path == get_detection_script_id(elems[i], path \o <<Key(k), Index(i - 1)>>)
         IN  IF new_path.found THEN new_path ELSE get_id_elems(elems, i + 1, k, path)

\* data[key] on a mapping node: the value of the entry with that key
Subscript(data, k) ==
    IF data.t = "map" /\ \E i \in 1..Len(data.items) : data.items[i].k = k
    THEN <<data.items[CHOOSE i \in 1..Len(data.items) : data.items[i].k = k].v>>
    ELSE <<>>

\* lines 87-92; err is TRUE when a subscript raises
RECURSIVE get_value_from_path(_, _)
get_value_from_path(data, path) ==
    IF path = <<>>
    THEN LET ssv == Subscript(data, "simpleSettingValue")
             val == IF ssv = <<>> THEN <<>> ELSE Subscript(ssv[1], "value")
         IN  IF val = <<>> \/ val[1].t # "str" THEN [err |-> TRUE]
             ELSE [err |-> FALSE, value |-> val[1].v]
    ELSE LET key == Head(path)
             next == IF data.t = "list"
                     THEN IF Has(key, "idx") /\ key.idx < Len(data.items)
                          THEN <<data.items[key.idx + 1]>> ELSE <<>>
                     ELSE IF Has(key, "key") THEN Subscript(data, key.key) ELSE <<>>
         IN  IF next = <<>> THEN [err |-> TRUE] ELSE get_value_from_path(next[1], Tail(path))

(***************************************************************************)
(* Correlation by envelope id (DeviceCompliance, GroupPolicy, Roles)       *)
(***************************************************************************)
HasSlash(s) == \E i \in 1..Len(s) : s[i] = "/"

\* str.split("/")
RECURSIVE SplitSlash(_)
SplitSlash(s) ==
    IF ~HasSlash(s) THEN <<s>>
    ELSE LET i == CHOOSE j \in 1..Len(s) : s[j] = "/" /\ \A h \in 1..(j - 1) : s[h] # "/"
         IN  <<SubSeq(s, 1, i - 1)>> \o SplitSlash(SubSeq(s, i + 1, Len(s)))

\* the key taken from the front of the id: split("/")[0]
CorrelationKeyFirstSegment(response) ==
    LET id == IF Has(response, "id") THEN response.id ELSE <<>>
    IN  IF HasSlash(id) THEN SplitSlash(id)[1] ELSE <<>>

\* response.get("id", "").split("/")[-2] if "/" in response.get("id", "") else None
\* None and the empty string are both falsy for the `if policy_id:` that follows;
\* both are the empty sequence here.
CorrelationKey(response) ==
    LET id == IF Has(response, "id") THEN response.id ELSE <<>>
        parts == SplitSlash(id)
    IN  IF HasSlash(id) THEN parts[Len(parts) - 1] ELSE <<>>

\* response.get("body") and response["body"].get("value")
ValueTruthy(response) ==
    BodyTruthy(response) /\ Has(response.body, "value") /\ response.body.value # <<>>

\* the stage-1 loop that leaves at the first response without a value
\* (break where the code goes on to the next response)
RECURSIVE MapByEnvelopeIdBreak(_, _)
MapByEnvelopeIdBreak(resps, acc) ==
    IF resps = <<>> THEN acc
    ELSE LET response == Head(resps)
             key == CorrelationKey(response)
         IN  IF ~ValueTruthy(response) THEN acc
             ELSE IF key # <<>>
             THEN MapByEnvelopeIdBreak(Tail(resps), Put(acc, key, response.body.value))
             ELSE MapByEnvelopeIdBreak(Tail(resps), acc)

\* the stage-1 loop that files a response whose id has no "/" under the
\* whole id
RECURSIVE MapByEnvelopeIdWholeId(_, _)
MapByEnvelopeIdWholeId(resps, acc) ==
    IF resps = <<>> THEN acc
    ELSE LET response == Head(resps)
             id == IF Has(response, "id") THEN response.id ELSE <<>>
             key == IF HasSlash(id) THEN CorrelationKey(response) ELSE id
         IN  IF ValueTruthy(response) /\ key # <<>>
             THEN MapByEnvelopeIdWholeId(Tail(resps), Put(acc, key, response.body.value))
             ELSE MapByEnvelopeIdWholeId(Tail(resps), acc)

\* the stage-1 loop: map[key] = response["body"]["value"] for every response
\* with a value and a truthy key
RECURSIVE MapByEnvelopeId(_, _)
MapByEnvelopeId(resps, acc) ==
    IF resps = <<>> THEN acc
    ELSE LET response == Head(resps)
             key == CorrelationKey(response)
         IN  IF ValueTruthy(response) /\ key # <<>>
             THEN MapByEnvelopeId(Tail(resps), Put(acc, key, response.body.value))
             ELSE MapByEnvelopeId(Tail(resps), acc)

\* the envelope ids the transport answers with for the request item x
EnvelopeShapes == {"sub", "noslash", "child"}
EnvelopeId(x, shape, sub) ==
    CASE shape = "sub"     -> x \o <<"/", sub>>
      [] shape = "noslash" -> x
      [] shape = "child"   -> x \o <<"/", sub, "/", "childABC">>

\* remove_keys of the base class: drops the read-only keys of an object
remove_keys(d) == Pop(d, "id")

(***************************************************************************)
(* DeviceCompliance                                                        *)
(***************************************************************************)
ZeroGuid == S("00000000-0000-0000-0000-000000000000")

LinuxSetting(script) ==
    Mapping(<<Entry("settingDefinitionId", Scalar(Sentinel)),
              Entry("simpleSettingValue", Mapping(<<Entry("value", Scalar(script))>>))>>)
PlainSetting == Mapping(<<Entry("settingDefinitionId", Scalar(S("other")))>>)

ComplianceShapes == {"plain", "linux", "linux_deep", "nosibling"}
ComplianceSettings(shape) ==
    CASE shape = "plain" -> Sequence(<<PlainSetting>>)
      [] shape = "linux" -> Sequence(<<Mapping(<<Entry("settingInstance", LinuxSetting(S("s1")))>>)>>)
      [] shape = "linux_deep" ->
             Sequence(<<PlainSetting,
                        Mapping(<<Entry("settingInstance",
                                        Mapping(<<Entry("children", Sequence(<<LinuxSetting(S("s2"))>>))>>))>>)>>)
      [] shape = "nosibling" ->
             Sequence(<<Mapping(<<Entry("settingDefinitionId", Scalar(Sentinel))>>)>>)

ComplianceRecord(id, shape) == [id |-> id, settings |-> ComplianceSettings(shape)]

\* the Record as the tree the tree functions walk (keys as fetched)
ItemTree(item) == Mapping(<<Entry("id", Scalar(item.id)), Entry("settings", item.settings)>>)

\* lines 145-151 for one item: <<>> when nothing is harvested
ScriptOf(item) ==
    LET tree == ItemTree(item)
        detection_script_id_path == get_detection_script_id(tree, <<>>)
    IN  IF check_linux_discovery_script(tree) /\ detection_script_id_path.found
        THEN <<get_value_from_path(tree, detection_script_id_path.path)>>
        ELSE <<>>

\* lines 139-151
detection_script_ids(value) ==
    {ScriptOf(value[i])[1].value : i \in {j \in 1..Len(value) : ScriptOf(value[j]) # <<>> /\ ~ScriptOf(value[j])[1].err}}
HarvestRaises(value) ==
    \E i \in 1..Len(value) : ScriptOf(value[i]) # <<>> /\ ScriptOf(value[i])[1].err

ScriptName(script) == IF script = S("s1") THEN S("Script One") ELSE S("Script Two")

\* scheduled actions as served
Config(t) == [id |-> S("cfg"), notificationTemplateId |-> t]
ConfigNoTemplate == [id |-> S("cfg")]
Action(configs) == [id |-> S("act"), ruleName |-> S("rule"), scheduledActionConfigurations |-> configs]
\* A3 references no template: the all-zero id, no id, the empty id
ActionBodies == {"A1", "A2", "A3"}
ActionValue(b) ==
    CASE b = "A1" -> <<Action(<<Config(S("t1")), Config(ZeroGuid)>>)>>
      [] b = "A2" -> <<Action(<<Config(S("t2")), ConfigNoTemplate>>)>>
      [] b = "A3" -> <<Action(<<Config(ZeroGuid), ConfigNoTemplate, Config(<<>>)>>)>>

\* what the transport can answer for one policy in the stage-1 batch
StageOneKinds(bodies) ==
    {[shape |-> "sub", body |-> "absent"], [shape |-> "sub", body |-> "emptyvalue"]}
    \cup [shape : {"sub"}, body : bodies]
    \cup [shape : {"noslash", "child"}, body : {CHOOSE b \in bodies : TRUE}]
\* values[b] is the value list of the body named b
StageOneEnvelope(x, kind, sub, values) ==
    LET id == EnvelopeId(x, kind.shape, sub)
    IN  CASE kind.body = "absent" -> [id |-> id]
          [] kind.body = "emptyvalue" -> [id |-> id, body |-> [value |-> <<>>]]
          [] OTHER -> [id |-> id, body |-> [value |-> values[kind.body]]]

\* the harvest without the test against the all-zero id
TemplateIdsOfActionWithSentinel(action) ==
    LET configs == IF Has(action, "scheduledActionConfigurations")
                   THEN action.scheduledActionConfigurations ELSE <<>>
    IN  {configs[c].notificationTemplateId :
            c \in {d \in 1..Len(configs) :
                      /\ Has(configs[d], "notificationTemplateId")
                      /\ configs[d].notificationTemplateId # <<>>}}

\* lines 185-188: the template ids of one action
TemplateIdsOfAction(action) ==
    LET configs == IF Has(action, "scheduledActionConfigurations")
                   THEN action.scheduledActionConfigurations ELSE <<>>
    IN  {configs[c].notificationTemplateId :
            c \in {d \in 1..Len(configs) :
                      /\ Has(configs[d], "notificationTemplateId")
                      /\ configs[d].notificationTemplateId # <<>>
                      /\ configs[d].notificationTemplateId # ZeroGuid}}

\* lines 184-188: the template ids of one body value
TemplateIdsOf(value) == UNION {TemplateIdsOfAction(value[a]) : a \in 1..Len(value)}

\* lines 177-188: the set filled while scheduled_actions_map is built
notification_template_ids(resps) ==
    UNION {TemplateIdsOf(resps[i].body.value) :
              i \in {j \in 1..Len(resps) : ValueTruthy(resps[j]) /\ CorrelationKey(resps[j]) # <<>>}}

TemplateName(t) == IF t = S("t1") THEN S("Template One") ELSE S("Template Two")
TemplateBodyKinds == {"absent", "full", "noid"}
TemplateEnvelope(t, kind) ==
    CASE kind = "absent" -> [id |-> t]
      [] kind = "full"   -> [id |-> t, body |-> [id |-> t, displayName |-> TemplateName(t)]]
      [] kind = "noid"   -> [id |-> t, body |-> [displayName |-> TemplateName(t)]]

\* lines 222-226 for one config
ComplianceMergeConfig(config, notification_templates_map) ==
    LET named == IF /\ Has(config, "notificationTemplateId")
                    /\ config.notificationTemplateId # <<>>
                    /\ config.notificationTemplateId # ZeroGuid
                 THEN Put(config, "notificationTemplateName",
                          IF Has(notification_templates_map, config.notificationTemplateId)
                          THEN notification_templates_map[config.notificationTemplateId]
                          ELSE None)
                 ELSE config
    IN  remove_keys(named)

\* lines 220-226 for one action
ComplianceMergeAction(action, notification_templates_map) ==
    LET cleaned == remove_keys(action)
    IN  [cleaned EXCEPT !.scheduledActionConfigurations =
            [c \in 1..Len(@) |-> ComplianceMergeConfig(@[c], notification_templates_map)]]

\* the merge with detectionScriptName written outside the Linux test
ComplianceMergeItemAlways(item, detection_scripts_map, scheduled_actions_map, notification_templates_map) ==
    LET script == ScriptOf(item)
        item1 == Put(item, "detectionScriptName",
                     IF script # <<>> /\ Has(detection_scripts_map, script[1].value)
                     THEN detection_scripts_map[script[1].value] ELSE None)
        actions == IF Has(scheduled_actions_map, item.id) THEN scheduled_actions_map[item.id] ELSE <<>>
    IN  Put(item1, "scheduledActionsForRule",
            [a \in 1..Len(actions) |-> ComplianceMergeAction(actions[a], notification_templates_map)])

\* lines 208-226 for one item
ComplianceMergeItem(item, detection_scripts_map, scheduled_actions_map, notification_templates_map) ==
    LET script == ScriptOf(item)
        item1 == IF script = <<>> THEN item
                 ELSE Put(item, "detectionScriptName",
                          IF Has(detection_scripts_map, script[1].value)
                          THEN detection_scripts_map[script[1].value] ELSE None)
        actions == IF Has(scheduled_actions_map, item.id) THEN scheduled_actions_map[item.id] ELSE <<>>
    IN  Put(item1, "scheduledActionsForRule",
            [a \in 1..Len(actions) |-> ComplianceMergeAction(actions[a], notification_templates_map)])

\* lines 159-166: one make_graph_request per script id, in the set's iteration
\* order; n counts the lookups issued, err is TRUE when one raises
RECURSIVE ScriptLookups(_, _, _, _)
ScriptLookups(order, outcome, n, acc) ==
    IF order = <<>> THEN [err |-> FALSE, n |-> n, map |-> acc]
    ELSE LET script_id == Head(order) IN
         CASE outcome[script_id] = "raise" -> [err |-> TRUE, n |-> n + 1, map |-> acc]
           [] outcome[script_id] = "empty" -> ScriptLookups(Tail(order), outcome, n + 1, acc)
           [] outcome[script_id] = "found" ->
                  ScriptLookups(Tail(order), outcome, n + 1, Put(acc, script_id, ScriptName(script_id)))

\* lines 138-166: harvest the script ids, resolve each with a single-item lookup
DetectionScripts ==
    /\ module = "DeviceCompliance" /\ pc = "scripts"
    /\ UNCHANGED <<module, exclude, primary, graph_data, responses, log>>
    /\ IF HarvestRaises(graph_data)
       THEN /\ Raise("malformed")
            /\ UNCHANGED <<maps, calls>>
       ELSE LET ids == detection_script_ids(graph_data) IN
            \E order \in Perms(ids) : \E outcome \in [ids -> {"raise", "empty", "found"}] :
            LET done == ScriptLookups(order, outcome, 0, EmptyDict) IN
            /\ calls' = calls \o [i \in 1..done.n |->
                                     Call("make_graph_request", "detectionScript", 1, {order[i]})]
            /\ IF done.err
               THEN /\ Raise("transport")
                    /\ UNCHANGED maps
               ELSE /\ maps' = Put(maps, "detection_scripts_map", done.map)
                    /\ pc' = "actions"
                    /\ UNCHANGED <<ret, fault>>

\* lines 168-188: the scheduledActionsForRule batch and its two harvests
ScheduledActions ==
    /\ module = "DeviceCompliance" /\ pc = "actions"
    /\ UNCHANGED <<module, exclude, primary, graph_data, log>>
    /\ LET ids == {graph_data[i].id : i \in 1..Len(graph_data)} IN
       /\ calls' = Append(calls, Call("batch_request", "scheduledActions", Len(graph_data), ids))
       /\ \/ /\ Raise("transport")
             /\ UNCHANGED <<maps, responses>>
          \/ \E kind \in [ids -> StageOneKinds(ActionBodies)] :
             LET answer == {StageOneEnvelope(x, kind[x], "scheduledActionsForRule",
                                             [b \in ActionBodies |-> ActionValue(b)]) : x \in ids} IN
             \E scheduled_actions_responses \in Perms(answer) :
             /\ responses' = Put(responses, "scheduledActions", answer)
             /\ maps' = Put(Put(maps, "scheduled_actions_map",
                                MapByEnvelopeId(scheduled_actions_responses, EmptyDict)),
                            "notification_template_ids",
                            notification_template_ids(scheduled_actions_responses))
             /\ pc' = "templates"
             /\ UNCHANGED <<ret, fault>>

\* lines 204-226
ComplianceMerge(notification_templates_map) ==
    [i \in 1..Len(graph_data) |->
        ComplianceMergeItem(graph_data[i], maps.detection_scripts_map,
                            maps.scheduled_actions_map, notification_templates_map)]

\* lines 190-226: the notification template batch, then the merge
NotificationTemplates ==
    /\ module = "DeviceCompliance" /\ pc = "templates"
    /\ UNCHANGED <<module, exclude, primary, log>>
    /\ LET ids == maps.notification_template_ids IN
       IF ids = {}
       THEN /\ maps' = Put(maps, "notification_templates_map", EmptyDict)
            /\ graph_data' = ComplianceMerge(EmptyDict)
            /\ pc' = "persist"
            /\ UNCHANGED <<responses, calls, ret, fault>>
       ELSE \E template_list \in Perms(ids) :
            /\ calls' = Append(calls, Call("batch_request", "notificationTemplates",
                                           Len(template_list), Range(template_list)))
            /\ \/ /\ Raise("transport")
                  /\ UNCHANGED <<graph_data, maps, responses>>
               \/ \E kind \in [ids -> TemplateBodyKinds] :
                  LET answer == {TemplateEnvelope(x, kind[x]) : x \in ids} IN
                  \E template_responses \in Perms(answer) :
                  LET built == MapByBodyId(template_responses, "displayName", EmptyDict) IN
                  /\ responses' = Put(responses, "notificationTemplates", answer)
                  /\ IF built.err
                     THEN /\ Raise("malformed")
                          /\ UNCHANGED <<graph_data, maps>>
                     ELSE /\ maps' = Put(maps, "notification_templates_map", built.map)
                          /\ graph_data' = ComplianceMerge(built.map)
                          /\ pc' = "persist"
                          /\ UNCHANGED <<ret, fault>>

(***************************************************************************)
(* GroupPolicyConfigurations                                               *)
(***************************************************************************)
PolicyShapes == {"policy"}
PolicyRecord(id, shape) == [id |-> id, displayName |-> S("Policy")]

Definition(d) == [id |-> S(d), enabled |-> S("true")]
DefinitionBodies == {"D1", "D2"}
DefinitionValue(b) ==
    IF b = "D1" THEN <<Definition("d1")>> ELSE <<Definition("d1"), Definition("d2")>>

\* the key without the policy id
PresentationKeyDefinitionOnly(policy_id, definition) == definition.id

\* f"{policy_id}/definitionValues/{definition['id']}"
PresentationKey(policy_id, definition) == policy_id \o <<"/", "definitionValues", "/">> \o definition.id

\* lines 69-79: one request per definition of each item, in item order
RECURSIVE presentation_requests(_, _)
presentation_requests(value, definitions_map) ==
    IF value = <<>> THEN <<>>
    ELSE LET policy_id == Head(value).id
             definitions == IF Has(definitions_map, policy_id) THEN definitions_map[policy_id] ELSE <<>>
         IN  [d \in 1..Len(definitions) |-> PresentationKey(policy_id, definitions[d])]
             \o presentation_requests(Tail(value), definitions_map)

\* "/presentationValues" in response_id
HasPresentationValues(s) ==
    \E i \in 1..(Len(s) - 1) : s[i] = "/" /\ s[i + 1] = "presentationValues"

\* response_id.split("/presentationValues")[0]
BeforePresentationValues(s) ==
    LET i == CHOOSE j \in 1..(Len(s) - 1) :
                 /\ s[j] = "/" /\ s[j + 1] = "presentationValues"
                 /\ \A h \in 1..(j - 1) : ~(s[h] = "/" /\ s[h + 1] = "presentationValues")
    IN  SubSeq(s, 1, i - 1)

\* lines 94-101
RECURSIVE presentations_map(_, _)
presentations_map(resps, acc) ==
    IF resps = <<>> THEN acc
    ELSE LET response == Head(resps)
             response_id == IF Has(response, "id") THEN response.id ELSE <<>>
         IN  IF ValueTruthy(response) /\ HasPresentationValues(response_id)
             THEN presentations_map(Tail(resps),
                      Put(acc, BeforePresentationValues(response_id), response.body.value))
             ELSE presentations_map(Tail(resps), acc)

Presentation == [id |-> S("pv"), value |-> S("on")]
PresentationKinds == {"absent", "emptyvalue", "full", "unkeyed"}
PresentationEnvelope(x, kind) ==
    LET id == x \o <<"/", "presentationValues">>
    IN  CASE kind = "absent"     -> [id |-> id]
          [] kind = "emptyvalue" -> [id |-> id, body |-> [value |-> <<>>]]
          [] kind = "full"       -> [id |-> id, body |-> [value |-> <<Presentation>>]]
          [] kind = "unkeyed"    -> [id |-> x, body |-> [value |-> <<Presentation>>]]

\* lines 104-111 for one item
PolicyAssembleItem(item, definitions_map, pmap) ==
    LET policy_id == item.id
        definitions == IF Has(definitions_map, policy_id) THEN definitions_map[policy_id] ELSE <<>>
    IN  Put(item, "definitionValues",
            [d \in 1..Len(definitions) |->
                LET key == PresentationKey(policy_id, definitions[d])
                IN  Put(definitions[d], "presentationValues",
                        IF Has(pmap, key) THEN pmap[key] ELSE <<>>)])

\* lines 46-66: the definitionValues batch
DefinitionStage ==
    /\ module = "GroupPolicyConfigurations" /\ pc = "definitions"
    /\ UNCHANGED <<module, exclude, primary, graph_data, log>>
    /\ LET ids == {graph_data[i].id : i \in 1..Len(graph_data)} IN
       IF graph_data = <<>>
       THEN /\ maps' = Put(maps, "definitions_map", EmptyDict)
            /\ pc' = "presentations"
            /\ UNCHANGED <<responses, calls, ret, fault>>
       ELSE /\ calls' = Append(calls, Call("batch_request", "definitionValues", Len(graph_data), ids))
            /\ \/ /\ Raise("transport")
                  /\ UNCHANGED <<maps, responses>>
               \/ \E kind \in [ids -> StageOneKinds(DefinitionBodies)] :
                  LET answer == {StageOneEnvelope(x, kind[x], "definitionValues",
                                                  [b \in DefinitionBodies |-> DefinitionValue(b)]) : x \in ids} IN
                  \E definition_responses \in Perms(answer) :
                  /\ responses' = Put(responses, "definitionValues", answer)
                  /\ maps' = Put(maps, "definitions_map", MapByEnvelopeId(definition_responses, EmptyDict))
                  /\ pc' = "presentations"
                  /\ UNCHANGED <<ret, fault>>

\* lines 68-111: the presentationValues batch, then the assembly
PresentationStage ==
    /\ module = "GroupPolicyConfigurations" /\ pc = "presentations"
    /\ UNCHANGED <<module, exclude, primary, log>>
    /\ LET requests == presentation_requests(graph_data, maps.definitions_map)
           Assemble(pmap) == [i \in 1..Len(graph_data) |->
                                 PolicyAssembleItem(graph_data[i], maps.definitions_map, pmap)]
       IN
       IF requests = <<>>
       THEN /\ maps' = Put(maps, "presentations_map", EmptyDict)
            /\ graph_data' = Assemble(EmptyDict)
            /\ pc' = "persist"
            /\ UNCHANGED <<responses, calls, ret, fault>>
       ELSE /\ calls' = Append(calls, Call("batch_request", "presentationValues",
                                           Len(requests), Range(requests)))
            /\ \/ /\ Raise("transport")
                  /\ UNCHANGED <<graph_data, maps, responses>>
               \/ \E kind \in [Range(requests) -> PresentationKinds] :
                  LET answer == {PresentationEnvelope(x, kind[x]) : x \in Range(requests)} IN
                  \E presentation_responses \in Perms(answer) :
                  LET pmap == presentations_map(presentation_responses, EmptyDict) IN
                  /\ responses' = Put(responses, "presentationValues", answer)
                  /\ maps' = Put(maps, "presentations_map", pmap)
                  /\ graph_data' = Assemble(pmap)
                  /\ pc' = "persist"
                  /\ UNCHANGED <<ret, fault>>

(***************************************************************************)
(* Roles                                                                   *)
(***************************************************************************)
RoleShapes == {"role"}
RoleRecord(id, shape) ==
    [id |-> id, permissions |-> S("perm"),
     rolePermissions |-> <<[actions |-> S("act"), resourceActions |-> S("res")]>>]

\* every role has its own assignment
AssignmentId(role_id) == <<"assignment-of-">> \o role_id
AssignmentBodies == {"R1"}
AssignmentValue(role_id) == <<[id |-> AssignmentId(role_id), displayName |-> S("Assignment")]>>

GroupIdSet == {S("g1"), S("g2")}
GroupName(g) == IF g = S("g1") THEN S("Group One") ELSE S("Group Two")

\* the assignment details the transport can answer with
DetailKinds == {"absent", "noid", "V1", "V2"}
DetailEnvelope(a, kind) ==
    LET detail(scope, members) ==
            [id |-> a, displayName |-> S("Assignment"), scopeMembers |-> scope,
             members |-> members, resourceScopes |-> <<S("scope")>>]
    IN  CASE kind = "absent" -> [id |-> a]
          [] kind = "noid"   -> [id |-> a, body |-> Pop(detail(<<S("g1")>>, <<S("g1"), S("g2")>>), "id")]
          [] kind = "V1"     -> [id |-> a, body |-> detail(<<S("g1")>>, <<S("g1"), S("g2")>>)]
          [] kind = "V2"     -> [id |-> a, body |-> detail(<<>>, <<S("g1")>>)]

GroupKinds == {"absent", "full", "noid"}
GroupEnvelope(g, kind) ==
    CASE kind = "absent" -> [id |-> g]
      [] kind = "full"   -> [id |-> g, body |-> [id |-> g, displayName |-> GroupName(g)]]
      [] kind = "noid"   -> [id |-> g, body |-> [displayName |-> GroupName(g)]]

\* lines 96-103: one request per assignment of each item, in item order
RECURSIVE assignment_ids(_, _)
assignment_ids(value, assignments_map) ==
    IF value = <<>> THEN <<>>
    ELSE LET assignments == IF Has(assignments_map, Head(value).id)
                            THEN assignments_map[Head(value).id] ELSE <<>>
         IN  [a \in 1..Len(assignments) |-> assignments[a].id]
             \o assignment_ids(Tail(value), assignments_map)

\* x.get(field) of an assignment detail, [] when absent
ListField(d, field) == IF Has(d, field) THEN d[field] ELSE <<>>

\* lines 120-125
group_ids(assignment_details_map) ==
    UNION {Range(ListField(assignment_details_map[a], "scopeMembers"))
           \cup Range(ListField(assignment_details_map[a], "members")) :
              a \in DOMAIN assignment_details_map}

\* the substitution that keeps only the groups the batch resolved
GroupNamesResolvedOnly(list, group_names_map) ==
    LET Resolved(g) == Has(group_names_map, g)
        kept == SelectSeq(list, Resolved)
    IN  [i \in 1..Len(kept) |-> group_names_map[kept[i]]]

\* group_names_map.get(group_id, group_id) over a list
GroupNames(list, group_names_map) ==
    [i \in 1..Len(list) |-> IF Has(group_names_map, list[i]) THEN group_names_map[list[i]] ELSE list[i]]

\* lines 150-170 for one assignment with a detail
RoleAssembleDetail(assignment_detail, group_names_map) ==
    LET d0 == remove_keys(assignment_detail)
        d1 == IF ListField(d0, "scopeMembers") # <<>>
              THEN [d0 EXCEPT !.scopeMembers = GroupNames(@, group_names_map)] ELSE d0
        d2 == IF ListField(d1, "members") # <<>>
              THEN [d1 EXCEPT !.members = GroupNames(@, group_names_map)] ELSE d1
    IN  Pop(d2, "resourceScopes")

\* lines 149-170: the details of the assignments that have one, in order
RECURSIVE RoleAssignments(_, _, _)
RoleAssignments(assignments, assignment_details_map, group_names_map) ==
    IF assignments = <<>> THEN <<>>
    ELSE LET id == Head(assignments).id
             rest == RoleAssignments(Tail(assignments), assignment_details_map, group_names_map)
         IN  IF Has(assignment_details_map, id)
             THEN <<RoleAssembleDetail(assignment_details_map[id], group_names_map)>> \o rest
             ELSE rest

\* lines 144-170 for one item
RoleAssembleItem(item, assignments_map, assignment_details_map, group_names_map) ==
    LET assignments == IF Has(assignments_map, item.id) THEN assignments_map[item.id] ELSE <<>>
    IN  IF assignments # <<>>
        THEN Put(item, "roleAssignments",
                 RoleAssignments(assignments, assignment_details_map, group_names_map))
        ELSE item

\* lines 173-175 for one item
RoleCleanItem(item) ==
    LET popped == Pop(item, "permissions")
    IN  [popped EXCEPT !.rolePermissions[1] = Pop(@, "actions")]

\* lines 75-93: the roleAssignments batch
AssignmentStage ==
    /\ module = "Roles" /\ pc = "assignments"
    /\ UNCHANGED <<module, exclude, primary, graph_data, log>>
    /\ LET ids == {graph_data[i].id : i \in 1..Len(graph_data)} IN
       IF graph_data = <<>>
       THEN /\ maps' = Put(maps, "assignments_map", EmptyDict)
            /\ pc' = "details"
            /\ UNCHANGED <<responses, calls, ret, fault>>
       ELSE /\ calls' = Append(calls, Call("batch_request", "roleAssignments", Len(graph_data), ids))
            /\ \/ /\ Raise("transport")
                  /\ UNCHANGED <<maps, responses>>
               \/ \E kind \in [ids -> StageOneKinds(AssignmentBodies)] :
                  LET answer == {StageOneEnvelope(x, kind[x], "roleAssignments",
                                                  [b \in AssignmentBodies |-> AssignmentValue(x)]) : x \in ids} IN
                  \E assignment_responses \in Perms(answer) :
                  /\ responses' = Put(responses, "roleAssignments", answer)
                  /\ maps' = Put(maps, "assignments_map", MapByEnvelopeId(assignment_responses, EmptyDict))
                  /\ pc' = "details"
                  /\ UNCHANGED <<ret, fault>>

\* lines 95-125: the assignment detail batch and the group id harvest
DetailStage ==
    /\ module = "Roles" /\ pc = "details"
    /\ UNCHANGED <<module, exclude, primary, graph_data, log>>
    /\ LET requests == assignment_ids(graph_data, maps.assignments_map) IN
       IF requests = <<>>
       THEN /\ maps' = Put(Put(maps, "assignment_details_map", EmptyDict), "group_ids", {})
            /\ pc' = "groups"
            /\ UNCHANGED <<responses, calls, ret, fault>>
       ELSE /\ calls' = Append(calls, Call("batch_request", "assignmentDetails",
                                           Len(requests), Range(requests)))
            /\ \/ /\ Raise("transport")
                  /\ UNCHANGED <<maps, responses>>
               \/ \E kind \in [Range(requests) -> DetailKinds] :
                  LET answer == {DetailEnvelope(x, kind[x]) : x \in Range(requests)} IN
                  \E assignment_detail_responses \in Perms(answer) :
                  LET built == MapByBodyId(assignment_detail_responses, "", EmptyDict) IN
                  /\ responses' = Put(responses, "assignmentDetails", answer)
                  /\ IF built.err
                     THEN /\ Raise("malformed")
                          /\ UNCHANGED maps
                     ELSE /\ maps' = Put(Put(maps, "assignment_details_map", built.map),
                                         "group_ids", group_ids(built.map))
                          /\ pc' = "groups"
                          /\ UNCHANGED <<ret, fault>>

\* lines 127-170: the group name batch, then the assembly
GroupStage ==
    /\ module = "Roles" /\ pc = "groups"
    /\ UNCHANGED <<module, exclude, primary, log>>
    /\ LET ids == maps.group_ids
           Assemble(group_names_map) ==
               [i \in 1..Len(graph_data) |->
                   RoleAssembleItem(graph_data[i], maps.assignments_map,
                                    maps.assignment_details_map, group_names_map)]
       IN
       IF ids = {}
       THEN /\ maps' = Put(maps, "group_names_map", EmptyDict)
            /\ graph_data' = Assemble(EmptyDict)
            /\ pc' = "persist"
            /\ UNCHANGED <<responses, calls, ret, fault>>
       ELSE \E group_list \in Perms(ids) :
            /\ calls' = Append(calls, Call("batch_request", "groups", Len(group_list), Range(group_list)))
            /\ \/ /\ Raise("transport")
                  /\ UNCHANGED <<graph_data, maps, responses>>
               \/ \E kind \in [ids -> GroupKinds] :
                  LET answer == {GroupEnvelope(x, kind[x]) : x \in ids} IN
                  \E group_responses \in Perms(answer) :
                  LET built == MapByBodyId(group_responses, "displayName", EmptyDict) IN
                  /\ responses' = Put(responses, "groups", answer)
                  /\ IF built.err
                     THEN /\ Raise("malformed")
                          /\ UNCHANGED <<graph_data, maps>>
                     ELSE /\ maps' = Put(maps, "group_names_map", built.map)
                          /\ graph_data' = Assemble(built.map)
                          /\ pc' = "persist"
                          /\ UNCHANGED <<ret, fault>>

\* lines 50-88: harvest, batch call, map, merge
AppStage ==
    /\ module = "AppConfiguration" /\ pc = "apps"
    /\ UNCHANGED <<module, exclude, primary, log>>
    /\ LET ids == app_ids(graph_data) IN
       IF graph_data = <<>> \/ ids = {}
       THEN LET m == AppMerge(graph_data, EmptyDict) IN
            /\ graph_data' = m.value
            /\ maps' = IF graph_data = <<>> THEN maps ELSE Put(maps, "app_details_map", EmptyDict)
            /\ pc' = "persist"
            /\ UNCHANGED <<responses, calls, ret, fault>>
       ELSE \E items \in app_list(graph_data) :
            /\ calls' = Append(calls, Call("batch_request", "apps", Len(items), Range(items)))
            /\ \/ \* batch_request raises
                  /\ Raise("transport")
                  /\ UNCHANGED <<graph_data, maps, responses>>
               \/ \E kind \in [ids -> AppBodyKinds] :
                  LET answer == {AppEnvelope(x, kind[x]) : x \in ids} IN
                  \E app_responses \in Perms(answer) :
                  LET built == app_details_map(app_responses)
                      m == AppMerge(graph_data, built.map)
                  IN  /\ responses' = Put(responses, "apps", answer)
                      /\ IF built.err \/ m.err
                         THEN /\ Raise("malformed")
                              /\ UNCHANGED <<graph_data, maps>>
                         ELSE /\ maps' = Put(maps, "app_details_map", built.map)
                              /\ graph_data' = m.value
                              /\ pc' = "persist"
                              /\ UNCHANGED <<ret, fault>>

(***************************************************************************)
(* The tree functions on their own: every mapping of up to MaxNodes nodes  *)
(* is walked twice, as main() does at lines 145-146 and 208-209.           *)
(***************************************************************************)
MaxNodes == 6

TreesOfSize[n \in 1..MaxNodes] ==
    IF n = 1 THEN {Scalar(Sentinel), Scalar(S("x"))}
    ELSE LET one == TreesOfSize[n - 1]
             two == UNION {TreesOfSize[i] \X TreesOfSize[n - 1 - i] : i \in 1..(n - 2)}
         IN  {Mapping(<<Entry("a", v)>>) : v \in one}
             \cup {Mapping(<<Entry("a", p[1]), Entry("b", p[2])>>) : p \in two}
             \cup {Sequence(<<v>>) : v \in one}
             \cup {Sequence(<<p[1], p[2]>>) : p \in two}

Roots == {t \in UNION {TreesOfSize[n] : n \in 2..MaxNodes} : t.t = "map"}

TreeInit ==
    /\ module = "DeviceCompliance"
    /\ exclude = FALSE
    /\ pc = "tree"
    /\ primary \in {<<t>> : t \in Roots}
    /\ graph_data = <<>>
    /\ maps = EmptyDict
    /\ responses = EmptyDict
    /\ calls = <<>>
    /\ log = 0
    /\ ret = "pending"
    /\ fault = "none"

\* lines 145-146: the harvest pass asks whether the tree is a Linux policy
\* and where its script id is
HarvestPath ==
    /\ pc = "tree"
    /\ maps' = Put(Put(maps, "is_linux", check_linux_discovery_script(primary[1])),
                   "harvest_path", get_detection_script_id(primary[1], <<>>))
    /\ pc' = "tree_again"
    /\ UNCHANGED <<module, exclude, primary, graph_data, responses, calls, log, ret, fault>>

\* lines 208-209: the merge pass asks again
MergePath ==
    /\ pc = "tree_again"
    /\ maps' = Put(maps, "merge_path", get_detection_script_id(primary[1], <<>>))
    /\ pc' = "done"
    /\ UNCHANGED <<module, exclude, primary, graph_data, responses, calls, log, ret, fault>>

TreeNext == HarvestPath \/ MergePath

TreeSpec == TreeInit /\ [][TreeNext]_vars

(***************************************************************************)
(* main(): the blocks common to the four modules                           *)
(***************************************************************************)
Modules == {"AppConfiguration", "DeviceCompliance", "GroupPolicyConfigurations", "Roles"}

Init ==
    /\ module \in Modules
    /\ exclude \in (IF module = "Roles" THEN BOOLEAN ELSE {FALSE})
    /\ pc = "start"
    /\ primary = <<>>
    /\ graph_data = <<>>
    /\ maps = EmptyDict
    /\ responses = EmptyDict
    /\ calls = <<>>
    /\ log = 0
    /\ ret = "pending"
    /\ fault = "none"

\* what the primary list request of each module can return
PrimaryValuesOf(m) ==
    CASE m = "AppConfiguration" ->
             {[i \in DOMAIN v |-> AppRecord(v[i].id, v[i].shape)] : v \in PrimaryValues(AppShapes)}
      [] m = "DeviceCompliance" ->
             {[i \in DOMAIN v |-> ComplianceRecord(v[i].id, v[i].shape)] : v \in PrimaryValues(ComplianceShapes)}
      [] m = "GroupPolicyConfigurations" ->
             {[i \in DOMAIN v |-> PolicyRecord(v[i].id, v[i].shape)] : v \in PrimaryValues(PolicyShapes)}
      [] m = "Roles" ->
             {[i \in DOMAIN v |-> RoleRecord(v[i].id, v[i].shape)] : v \in PrimaryValues(RoleShapes)}

\* the block that follows the primary fetch when the exclude test is left out
FirstStageNoExclude(m) ==
    CASE m = "AppConfiguration" -> "apps"
      [] m = "DeviceCompliance" -> "scripts"
      [] m = "GroupPolicyConfigurations" -> "definitions"
      [] m = "Roles" -> "assignments"

\* the block that follows the primary fetch; Roles skips its stages when
\* "assignments" is excluded (line 75)
FirstStage(m) ==
    CASE m = "AppConfiguration" -> "apps"
      [] m = "DeviceCompliance" -> "scripts"
      [] m = "GroupPolicyConfigurations" -> "definitions"
      [] m = "Roles" -> IF exclude THEN "persist" ELSE "assignments"

\* the primary list request whose except branch logs and carries on with no
\* Records instead of returning
PrimaryFetchNoAbort ==
    /\ pc = "start"
    /\ calls' = Append(calls, Call("make_graph_request", "primary", 0, {}))
    /\ UNCHANGED <<module, exclude, maps, responses, primary, graph_data, ret>>
    /\ log' = log + 1
    /\ fault' = "primary"
    /\ pc' = FirstStage(module)

\* the primary list request of main() and its except branch
PrimaryFetch ==
    /\ pc = "start"
    /\ calls' = Append(calls, Call("make_graph_request", "primary", 0, {}))
    /\ UNCHANGED <<module, exclude, maps, responses>>
    /\ \/ \* the request raises: log an error, return None
          /\ log' = log + 1
          /\ ret' = "None"
          /\ fault' = "primary"
          /\ pc' = "done"
          /\ UNCHANGED <<primary, graph_data>>
       \/ \E value \in PrimaryValuesOf(module) :
          /\ primary' = value
          /\ graph_data' = value
          /\ pc' = FirstStage(module)
          /\ UNCHANGED <<log, ret, fault>>

\* Roles lines 172-178 run before its process_data call
Cleaned(value) ==
    IF module = "Roles" THEN [i \in 1..Len(value) |-> RoleCleanItem(value[i])] ELSE value

\* the final process_data call of main() and its except branch
ProcessData ==
    /\ pc = "persist"
    /\ graph_data' = Cleaned(graph_data)
    /\ calls' = Append(calls, Call("process_data", "persist", Len(graph_data),
                                   {graph_data[i].id : i \in 1..Len(graph_data)}))
    /\ pc' = "done"
    /\ UNCHANGED <<module, exclude, primary, maps, responses>>
    /\ \/ /\ log' = log + 1
          /\ ret' = "None"
          /\ fault' = "persist"
       \/ /\ ret' = "results"
          /\ UNCHANGED <<log, fault>>

Next ==
    \/ PrimaryFetch
    \/ AppStage
    \/ DetectionScripts
    \/ ScheduledActions
    \/ NotificationTemplates
    \/ DefinitionStage
    \/ PresentationStage
    \/ AssignmentStage
    \/ DetailStage
    \/ GroupStage
    \/ ProcessData

Spec == Init /\ [][Next]_vars

(***************************************************************************)
(* Properties                                                              *)
(***************************************************************************)
PersistCalls == {i \in 1..Len(calls) : calls[i].fn = "process_data"}

\* every enrichment stage of this run is over
StagesDone == pc = "persist" \/ PersistCalls # {}

\* the dependent identifiers the Records of this run reference
ReferencedApps ==
    IF module = "AppConfiguration"
    THEN UNION {Range(primary[i].targetedMobileApps.list) : i \in 1..Len(primary)}
    ELSE {}
ReferencedTemplates ==
    IF Has(responses, "scheduledActions")
    THEN UNION {TemplateIdsOf(e.body.value) :
                   e \in {r \in responses.scheduledActions : ValueTruthy(r) /\ CorrelationKey(r) # <<>>}}
    ELSE {}
ReferencedGroups ==
    IF Has(responses, "assignmentDetails")
    THEN UNION {Range(ListField(e.body, "scopeMembers")) \cup Range(ListField(e.body, "members")) :
                   e \in {r \in responses.assignmentDetails : BodyTruthy(r)}}
    ELSE {}

DedupAt(stage, referenced) ==
    /\ Cardinality(BatchCalls(stage)) <= 1
    /\ \A i \in BatchCalls(stage) :
          calls[i].n = Cardinality(referenced) /\ calls[i].ids = referenced /\ referenced # {}
    /\ (StagesDone /\ referenced # {}) => Cardinality(BatchCalls(stage)) = 1

\* C1: the resolver stage of the app ids (AppConfiguration), of the
\* non-sentinel notification template ids (DeviceCompliance) and of the
\* group ids (Roles) issues at most one batch_request call; a call it issues
\* has exactly one item per distinct referenced identifier (M items, whatever
\* the number of referencing Records); and once the stages are over it has
\* issued exactly one call whenever at least one identifier is referenced.
C1_DedupInvariant ==
    /\ DedupAt("apps", ReferencedApps)
    /\ DedupAt("notificationTemplates", ReferencedTemplates)
    /\ DedupAt("groups", ReferencedGroups)

\* two Records reference the same single app and the run is over
C1_Witness ==
    /\ module = "AppConfiguration" /\ pc = "done" /\ ret = "results"
    /\ Len(primary) = 2
    /\ \A i \in 1..2 : primary[i].targetedMobileApps.list = <<S("app1")>>
    /\ \E i \in BatchCalls("apps") : calls[i].n = 1

\* C2 as stated: main() returns None exactly when the primary fetch or the
\* persistence call fails, no failure of a dependent lookup makes main()
\* raise, and the persistence call is made with every primary Record.
C2_EnrichmentNeverFatal ==
    pc = "done" =>
        /\ ret # "exception"
        /\ (ret = "None") <=> (fault \in {"primary", "persist"})
        /\ fault # "primary" =>
              \E i \in PersistCalls : calls[i].n = Len(primary)

\* C3: once the primary list request has raised, main() is over, has
\* returned None, has logged exactly one error and has made no other call.
C3_FatalFetchAbort ==
    fault = "primary" =>
        /\ pc = "done"
        /\ ret = "None"
        /\ log = 1
        /\ calls = <<Call("make_graph_request", "primary", 0, {})>>

C3_Witness == fault = "primary" /\ pc = "done" /\ module = "GroupPolicyConfigurations"

\* the stage-1 batch of the modules that correlate by envelope id: the
\* sub-resource asked for, the map built from it, the field it fills
StageOne ==
    CASE module = "DeviceCompliance" ->
             [stage |-> "scheduledActions", sub |-> "scheduledActionsForRule",
              map |-> "scheduled_actions_map", field |-> "scheduledActionsForRule"]
      [] module = "GroupPolicyConfigurations" ->
             [stage |-> "definitionValues", sub |-> "definitionValues",
              map |-> "definitions_map", field |-> "definitionValues"]
      [] module = "Roles" ->
             [stage |-> "roleAssignments", sub |-> "roleAssignments",
              map |-> "assignments_map", field |-> "roleAssignments"]
      [] OTHER -> [stage |-> "none", sub |-> "none", map |-> "none", field |-> "none"]

StageOneAnswered == Has(responses, StageOne.stage)

\* the envelope answered for the request item x and what it carries
EnvelopeOf(x) == CHOOSE e \in responses[StageOne.stage] : SplitSlash(e.id)[1] = x
CarriesNothing(x) == ~ValueTruthy(EnvelopeOf(x))
CarriesPayload(x) ==
    ValueTruthy(EnvelopeOf(x)) /\ EnvelopeOf(x).id = x \o <<"/", StageOne.sub>>

\* Y's Record holds the payload of Y's envelope
Enriched(item) ==
    LET value == EnvelopeOf(item.id).body.value IN
    CASE module = "DeviceCompliance" ->
             /\ Has(item, "scheduledActionsForRule")
             /\ Len(item.scheduledActionsForRule) = Len(value)
             /\ \A a \in 1..Len(value) :
                   /\ item.scheduledActionsForRule[a].ruleName = value[a].ruleName
                   /\ Len(item.scheduledActionsForRule[a].scheduledActionConfigurations)
                          = Len(value[a].scheduledActionConfigurations)
      [] module = "GroupPolicyConfigurations" ->
             /\ Has(item, "definitionValues")
             /\ Len(item.definitionValues) = Len(value)
             /\ \A d \in 1..Len(value) :
                   /\ item.definitionValues[d].id = value[d].id
                   /\ Has(item.definitionValues[d], "presentationValues")
      [] module = "Roles" -> Has(item, "roleAssignments")

\* the pairs X, Y of Records of one run: nothing came back for X, a payload for Y
IsolationCases ==
    IF StageOneAnswered /\ StagesDone
    THEN {p \in (1..Len(graph_data)) \X (1..Len(graph_data)) :
             CarriesNothing(graph_data[p[1]].id) /\ CarriesPayload(graph_data[p[2]].id)}
    ELSE {}

\* the same for the app batch: Records that target only X, Records whose
\* first app is Y, X answered without a body and Y with a full one
AppAnswer(app) == CHOOSE e \in responses.apps : e.id = app
AppIsolationCases ==
    IF module = "AppConfiguration" /\ Has(responses, "apps") /\ StagesDone
    THEN {p \in (1..Len(graph_data)) \X (1..Len(graph_data)) :
             /\ Len(primary[p[1]].targetedMobileApps.list) = 1
             /\ ~BodyTruthy(AppAnswer(primary[p[1]].targetedMobileApps.list[1]))
             /\ primary[p[2]].targetedMobileApps.list # <<>>
             /\ BodyTruthy(AppAnswer(primary[p[2]].targetedMobileApps.list[1]))
             /\ AppAnswer(primary[p[2]].targetedMobileApps.list[1]).body
                    = [id |-> primary[p[2]].targetedMobileApps.list[1],
                       displayName |-> AppName(primary[p[2]].targetedMobileApps.list[1]),
                       odata_type |-> AppType(primary[p[2]].targetedMobileApps.list[1])]}
    ELSE {}

AppIsolated ==
    \A p \in AppIsolationCases :
        /\ graph_data[p[1]].targetedMobileApps = primary[p[1]].targetedMobileApps
        /\ graph_data[p[2]].targetedMobileApps
               = [appName |-> AppName(primary[p[2]].targetedMobileApps.list[1]),
                  type |-> AppType(primary[p[2]].targetedMobileApps.list[1])]

\* an answer without a body is no failure: a run that met no other failure
\* returns its results
NoAbort == (pc = "done" /\ fault = "none") => ret = "results"

C5_ThreeSegmentsGiveParent ==
    StageOneAnswered =>
        \A e \in responses[StageOne.stage] : \A i \in 1..Len(primary) :
            e.id = primary[i].id \o <<"/", StageOne.sub, "/", "childABC">>
                => CorrelationKey(e) = primary[i].id

\* C5 amended: the key is the second-to-last segment of the envelope id.  It
\* is the parent id for "parent/definitionValues", whose payload is routed
\* to the Record with that id; for "parent/definitionValues/childABC" it is
\* "definitionValues", and the payload reaches no Record.
C5_SecondToLastSegment ==
    StageOneAnswered =>
        \A e \in responses[StageOne.stage] : \A i \in 1..Len(primary) :
            LET parent == primary[i].id IN
            /\ e.id = parent \o <<"/", StageOne.sub>> =>
                  /\ CorrelationKey(e) = parent
                  /\ (ValueTruthy(e) /\ Has(maps, StageOne.map)) =>
                        /\ Has(maps[StageOne.map], parent)
                        /\ maps[StageOne.map][parent] = e.body.value
            /\ e.id = parent \o <<"/", StageOne.sub, "/", "childABC">> =>
                  /\ CorrelationKey(e) = <<StageOne.sub>>
                  /\ Has(maps, StageOne.map) => ~Has(maps[StageOne.map], parent)

C5_Witness ==
    /\ module = "GroupPolicyConfigurations" /\ StageOneAnswered /\ Len(primary) = 2
    /\ \E e \in responses.definitionValues :
          e.id = <<"p1", "/", "definitionValues", "/", "childABC">> /\ ValueTruthy(e)
    /\ \E e \in responses.definitionValues :
          e.id = <<"p2", "/", "definitionValues">> /\ ValueTruthy(e)
    /\ pc = "done" /\ ret = "results"

\* C6 as stated: a rewritten targetedMobileApps carries the name and type
\* resolved for the first identifier of the list, whatever the batch resolved.
C6_FirstAppOnly ==
    (module = "AppConfiguration" /\ StagesDone) =>
        \A i \in 1..Len(graph_data) :
            Has(graph_data[i].targetedMobileApps, "appName") =>
                graph_data[i].targetedMobileApps
                    = [appName |-> AppName(primary[i].targetedMobileApps.list[1]),
                       type |-> AppType(primary[i].targetedMobileApps.list[1])]

\* C7: with "assignments" excluded the Roles module issues no batch_request
\* call and no Record carries a roleAssignments field.
C7_RolesExclusion ==
    (module = "Roles" /\ exclude) =>
        /\ \A i \in 1..Len(calls) : calls[i].fn # "batch_request"
        /\ \A i \in 1..Len(graph_data) : ~Has(graph_data[i], "roleAssignments")

C7_Witness ==
    /\ module = "Roles" /\ exclude /\ pc = "done" /\ ret = "results"
    /\ Len(graph_data) = 2 /\ PersistCalls # {}

\* the sentinel occurs somewhere in the tree, at any depth
RECURSIVE SentinelAnywhere(_)
SentinelAnywhere(node) ==
    CASE node.t = "str"  -> node.v = Sentinel
      [] node.t = "map"  -> \E i \in 1..Len(node.items) : SentinelAnywhere(node.items[i].v)
      [] node.t = "list" -> \E i \in 1..Len(node.items) : SentinelAnywhere(node.items[i])

ScriptLookupCalls == {i \in 1..Len(calls) : calls[i].stage = "detectionScript"}

\* C8: a compliance Record whose tree holds the sentinel nowhere never gets
\* a detectionScriptName field, and every detection-script lookup is for the
\* script id of a Record that does hold the sentinel.
C8_NonLinuxUntouched ==
    (module = "DeviceCompliance" /\ pc # "tree" /\ pc # "tree_again" /\ Len(graph_data) = Len(primary)) =>
        /\ \A i \in 1..Len(graph_data) :
              ~SentinelAnywhere(ItemTree(primary[i])) => ~Has(graph_data[i], "detectionScriptName")
        /\ \A c \in ScriptLookupCalls :
              \E i \in 1..Len(primary) :
                  /\ SentinelAnywhere(ItemTree(primary[i]))
                  /\ calls[c].ids = {get_value_from_path(ItemTree(primary[i]),
                                         get_detection_script_id(ItemTree(primary[i]), <<>>).path).value}

C8_Witness ==
    /\ module = "DeviceCompliance" /\ pc = "done" /\ ret = "results" /\ Len(graph_data) = 2
    /\ ~SentinelAnywhere(ItemTree(primary[1])) /\ ~Has(graph_data[1], "detectionScriptName")
    /\ Has(graph_data[2], "detectionScriptName") /\ graph_data[2].detectionScriptName # None
    /\ ScriptLookupCalls # {}

RECURSIVE Concat(_)
Concat(seqs) == IF seqs = <<>> THEN <<>> ELSE Head(seqs) \o Concat(Tail(seqs))

\* every occurrence of the sentinel in depth-first order (mapping entries in
\* insertion order, sequence elements in index order), each given by the
\* path of the container that holds it
RECURSIVE Occurrences(_, _, _)
Occurrences(node, holder, self) ==
    CASE node.t = "str"  -> IF node.v = Sentinel THEN <<holder>> ELSE <<>>
      [] node.t = "map"  ->
             Concat([i \in 1..Len(node.items) |->
                        Occurrences(node.items[i].v, self, Append(self, Key(node.items[i].k)))])
      [] node.t = "list" ->
             Concat([i \in 1..Len(node.items) |->
                        Occurrences(node.items[i], self, Append(self, Index(i - 1)))])

\* the occurrences the walk can see: the sentinel as the value of a key of a
\* mapping, the mapping being the root, the value of a key of such a mapping,
\* or an element of a sequence that is the value of a key of such a mapping
RECURSIVE MappingHits(_, _)
MappingHits(node, self) ==
    IF node.t # "map" THEN <<>>
    ELSE Concat([i \in 1..Len(node.items) |->
             LET k == node.items[i].k
                 v == node.items[i].v
             IN  CASE v.t = "str"  -> IF v.v = Sentinel THEN <<self>> ELSE <<>>
                   [] v.t = "map"  -> MappingHits(v, Append(self, Key(k)))
                   [] v.t = "list" ->
                          Concat([j \in 1..Len(v.items) |->
                                     MappingHits(v.items[j], self \o <<Key(k), Index(j - 1)>>)])])

FirstOf(paths) == IF paths = <<>> THEN NotFound ELSE Found(Head(paths))

\* C9 as stated: both calls return the path of the first occurrence of the
\* sentinel in depth-first order, and None exactly when the sentinel occurs
\* at no depth of the tree.
C9_FirstOccurrenceAnywhere ==
    pc = "done" =>
        /\ maps.harvest_path = FirstOf(Occurrences(primary[1], <<>>, <<>>))
        /\ maps.merge_path = maps.harvest_path
        /\ (~maps.harvest_path.found) <=> ~SentinelAnywhere(primary[1])

\* C9 amended: both calls return the path of the mapping that holds the
\* first sentinel, in depth-first order, among the sentinels that are the
\* value of a mapping key, mappings being reached from the root through
\* mapping values and through the elements of sequences that are mapping
\* values; they return None (which differs from the empty path) exactly when
\* there is no such sentinel.  A sentinel that is an element of a sequence,
\* or lies below a sequence nested in a sequence, is not seen.
C9_FirstMappingHit ==
    pc = "done" =>
        /\ maps.harvest_path = FirstOf(MappingHits(primary[1], <<>>))
        /\ maps.merge_path = maps.harvest_path
        /\ (~maps.harvest_path.found) <=> (MappingHits(primary[1], <<>>) = <<>>)
        /\ NotFound # Found(<<>>)

\* two sentinels at different depths, the deeper one met first
C9_Witness ==
    /\ pc = "done"
    /\ Len(MappingHits(primary[1], <<>>)) = 2
    /\ Len(MappingHits(primary[1], <<>>)[1]) > Len(MappingHits(primary[1], <<>>)[2])
    /\ maps.merge_path = Found(MappingHits(primary[1], <<>>)[1])

\* the Resolution Maps as the sets of envelopes determine them, whatever the
\* order the envelopes arrived in
Answer(stage) == IF Has(responses, stage) THEN responses[stage] ELSE {}

SetMapByKey(answer) ==
    LET keyed == {e \in answer : ValueTruthy(e) /\ CorrelationKey(e) # <<>>}
    IN  [k \in {CorrelationKey(e) : e \in keyed} |->
            (CHOOSE e \in keyed : CorrelationKey(e) = k).body.value]

SetMapByBodyId(answer, field) ==
    LET bodied == {e \in answer : BodyTruthy(e) /\ Has(e.body, "id")}
    IN  [k \in {e.body.id : e \in bodied} |->
            LET body == (CHOOSE e \in bodied : e.body.id = k).body
            IN  IF field = "" THEN body ELSE body[field]]

SetMapByPresentationKey(answer) ==
    LET keyed == {e \in answer : ValueTruthy(e) /\ HasPresentationValues(e.id)}
    IN  [k \in {BeforePresentationValues(e.id) : e \in keyed} |->
            (CHOOSE e \in keyed : BeforePresentationValues(e.id) = k).body.value]

\* the Records the envelope sets determine
ExpectedOutput ==
    CASE module = "AppConfiguration" ->
             AppMerge(primary, SetMapByBodyId(Answer("apps"), "")).value
      [] module = "DeviceCompliance" ->
             [i \in 1..Len(primary) |->
                 ComplianceMergeItem(primary[i], maps.detection_scripts_map,
                     SetMapByKey(Answer("scheduledActions")),
                     SetMapByBodyId(Answer("notificationTemplates"), "displayName"))]
      [] module = "GroupPolicyConfigurations" ->
             [i \in 1..Len(primary) |->
                 PolicyAssembleItem(primary[i], SetMapByKey(Answer("definitionValues")),
                     SetMapByPresentationKey(Answer("presentationValues")))]
      [] module = "Roles" ->
             [i \in 1..Len(primary) |->
                 RoleCleanItem(
                     IF exclude THEN primary[i]
                     ELSE RoleAssembleItem(primary[i], SetMapByKey(Answer("roleAssignments")),
                              SetMapByBodyId(Answer("assignmentDetails"), ""),
                              SetMapByBodyId(Answer("groups"), "displayName")))]

\* the envelopes of one answer have pairwise distinct ids
DistinctIds ==
    \A stage \in DOMAIN responses :
        \A e, f \in responses[stage] : e.id = f.id => e = f

\* C10: the Records handed to process_data are the ones the sets of
\* envelopes received determine; the order of the envelopes in a response
\* and the order in which a harvested set was iterated leave no trace in
\* them.
C10_OrderIndependence ==
    /\ DistinctIds
    /\ PersistCalls # {} => graph_data = ExpectedOutput

\* two apps answered, each with a body, and two Records rewritten
C10_Witness ==
    /\ module = "AppConfiguration" /\ pc = "done" /\ ret = "results"
    /\ Has(responses, "apps") /\ Cardinality({e \in responses.apps : BodyTruthy(e)}) = 2
    /\ Len(graph_data) = 2
    /\ graph_data[1].targetedMobileApps = [appName |-> S("Foo"), type |-> S("#t.App")]
    /\ graph_data[2].targetedMobileApps = [appName |-> S("Bar"), type |-> S("#t.Other")]

(***************************************************************************)
(* Sentinel template id and empty batches                                  *)
(***************************************************************************)
\* a configuration that names no notification template
NoTemplateId(config) ==
    \/ ~Has(config, "notificationTemplateId")
    \/ config.notificationTemplateId = <<>>
    \/ config.notificationTemplateId = ZeroGuid

\* the configurations of the scheduled actions the stage-1 batch served
ServedConfigs ==
    UNION {UNION {Range(e.body.value[a].scheduledActionConfigurations) : a \in 1..Len(e.body.value)} :
              e \in {r \in Answer("scheduledActions") : ValueTruthy(r)}}

\* the configurations of the scheduled actions merged into the Records
MergedConfigs ==
    UNION {UNION {Range(graph_data[i].scheduledActionsForRule[a].scheduledActionConfigurations) :
                      a \in 1..Len(graph_data[i].scheduledActionsForRule)} :
              i \in {j \in 1..Len(graph_data) : Has(graph_data[j], "scheduledActionsForRule")}}

\* C13: the notification template batch call never carries the all-zero id
\* nor an empty id; it is not issued when every served scheduled action
\* configuration carries the all-zero id or no template id; and only a
\* configuration whose notificationTemplateId is present and is not the
\* all-zero id gets a notificationTemplateName.
C13_SentinelExclusion ==
    /\ \A i \in BatchCalls("notificationTemplates") :
          ZeroGuid \notin calls[i].ids /\ <<>> \notin calls[i].ids
    /\ (Has(responses, "scheduledActions") /\ \A c \in ServedConfigs : NoTemplateId(c))
          => BatchCalls("notificationTemplates") = {}
    /\ \A c \in MergedConfigs : Has(c, "notificationTemplateName") => ~NoTemplateId(c)

\* a Record whose action names template t1 and the all-zero id: the batch
\* asks for t1 alone and only the first configuration gets a name
C13_Witness ==
    /\ module = "DeviceCompliance" /\ pc = "done" /\ ret = "results"
    /\ \E i \in BatchCalls("notificationTemplates") : calls[i].ids = {S("t1")}
    /\ Len(graph_data) >= 1
    /\ LET configs == graph_data[1].scheduledActionsForRule IN
       /\ Len(configs) = 1
       /\ Len(configs[1].scheduledActionConfigurations) = 2
       /\ configs[1].scheduledActionConfigurations[1].notificationTemplateName = S("Template One")
       /\ configs[1].scheduledActionConfigurations[2].notificationTemplateId = ZeroGuid
       /\ ~Has(configs[1].scheduledActionConfigurations[2], "notificationTemplateName")

\* C15 as stated: every batch_request call that is issued has a non-empty
\* item list.
C15_NoEmptyBatch ==
    \A i \in 1..Len(calls) : calls[i].fn = "batch_request" => calls[i].n > 0

(***************************************************************************)
(* Roles: group names                                                      *)
(***************************************************************************)
\* the assignment detail bodies the detail batch served for a role
FetchedDetail(role_id) ==
    {e.body : e \in {r \in Answer("assignmentDetails") :
                        BodyTruthy(r) /\ r.id = AssignmentId(role_id)}}

\* the display name the group batch served for g, g itself when it served none
ServedGroupName(g) ==
    LET hit == {e \in Answer("groups") :
                   BodyTruthy(e) /\ Has(e.body, "id") /\ Has(e.body, "displayName") /\ e.body.id = g}
    IN  IF hit = {} THEN g ELSE (CHOOSE e \in hit : TRUE).body.displayName

\* C11: every assignment attached to a Record's roleAssignments is a
\* fetched assignment detail of that Record; its scopeMembers and members
\* lists have the length and the order of the fetched lists, and the
\* element at each position is the display name served for the group id at
\* that position, or that group id when the group batch resolved none.
C11_GroupNameSubstitution ==
    \A i \in 1..Len(graph_data) :
        Has(graph_data[i], "roleAssignments") =>
            LET attached == graph_data[i].roleAssignments
                fetched == FetchedDetail(graph_data[i].id)
            IN  /\ Len(attached) = Cardinality(fetched)
                /\ \A k \in 1..Len(attached) : \A d \in fetched :
                   \A field \in {"scopeMembers", "members"} :
                      /\ Len(attached[k][field]) = Len(d[field])
                      /\ \A j \in 1..Len(d[field]) :
                            attached[k][field][j] = ServedGroupName(d[field][j])

\* members g1, g2 fetched, the group batch resolved g2 and not g1
C11_Witness ==
    /\ module = "Roles" /\ pc = "done" /\ ret = "results"
    /\ Len(graph_data) >= 1 /\ Has(graph_data[1], "roleAssignments")
    /\ Len(graph_data[1].roleAssignments) = 1
    /\ graph_data[1].roleAssignments[1].scopeMembers = <<S("g1")>>
    /\ graph_data[1].roleAssignments[1].members = <<S("g1"), S("Group Two")>>

(***************************************************************************)
(* Group Policy: staged assembly                                           *)
(***************************************************************************)
\* the definitions the stage-1 batch served under "policy_id/definitionValues"
CorrelatedDefinitions(policy_id) ==
    LET hit == {e \in Answer("definitionValues") :
                   ValueTruthy(e) /\ e.id = policy_id \o <<"/", "definitionValues">>}
    IN  IF hit = {} THEN <<>> ELSE (CHOOSE e \in hit : TRUE).body.value

\* the presentations the stage-2 batch served under "key/presentationValues"
ServedPresentations(key) ==
    LET hit == {e \in Answer("presentationValues") :
                   ValueTruthy(e) /\ e.id = key \o <<"/", "presentationValues">>}
    IN  IF hit = {} THEN <<>> ELSE (CHOOSE e \in hit : TRUE).body.value

\* "policyId/definitionValues/definitionId" for every Record and every
\* definition served for it
ExpectedPresentationIds ==
    UNION {{graph_data[i].id \o <<"/", "definitionValues", "/">> \o
                CorrelatedDefinitions(graph_data[i].id)[d].id :
                d \in 1..Len(CorrelatedDefinitions(graph_data[i].id))} :
              i \in 1..Len(graph_data)}

\* C12: in GroupPolicyConfigurations each stage issues at most one batch
\* call; the presentationValues call comes after the definitionValues call
\* has returned and asks exactly for "policyId/definitionValues/definitionId"
\* of every Record and every definition served for that Record; and in the
\* assembled Records definitionValues holds the definitions served for the
\* Record's own id, in order, each with the presentations served under its
\* own key in presentationValues, the empty list when none was served.
C12_StagedAssembly ==
    module = "GroupPolicyConfigurations" =>
        /\ Cardinality(BatchCalls("definitionValues")) <= 1
        /\ Cardinality(BatchCalls("presentationValues")) <= 1
        /\ \A j \in BatchCalls("presentationValues") :
              /\ \E i \in BatchCalls("definitionValues") : i < j
              /\ Has(responses, "definitionValues")
              /\ calls[j].ids = ExpectedPresentationIds
              /\ calls[j].n = Cardinality(ExpectedPresentationIds)
        /\ StagesDone =>
              \A i \in 1..Len(graph_data) :
                 LET item == graph_data[i]
                     served == CorrelatedDefinitions(item.id)
                 IN  /\ Has(item, "definitionValues")
                     /\ Len(item.definitionValues) = Len(served)
                     /\ \A d \in 1..Len(served) :
                           /\ Pop(item.definitionValues[d], "presentationValues") = served[d]
                           /\ item.definitionValues[d].presentationValues =
                                  ServedPresentations(item.id \o <<"/", "definitionValues", "/">>
                                                          \o served[d].id)

\* two policies with the same definition d1: the presentation served for
\* the first policy's d1 is in the first Record only
C12_Witness ==
    /\ module = "GroupPolicyConfigurations" /\ pc = "done" /\ ret = "results"
    /\ Len(graph_data) = 2
    /\ Len(graph_data[1].definitionValues) = 1 /\ Len(graph_data[2].definitionValues) = 2
    /\ graph_data[1].definitionValues[1].id = graph_data[2].definitionValues[1].id
    /\ graph_data[1].definitionValues[1].presentationValues = <<Presentation>>
    /\ graph_data[2].definitionValues[1].presentationValues = <<>>
    /\ graph_data[2].definitionValues[2].presentationValues = <<Presentation>>

(***************************************************************************)
(* Correlation miss                                                        *)
(***************************************************************************)
\* the stage-1 envelopes whose id has no "/"
DroppedStageOne == {e \in Answer(StageOne.stage) : ~HasSlash(e.id)}

\* the stage-2 envelopes of Group Policy whose id has no "/presentationValues"
DroppedPresentations == {e \in Answer("presentationValues") : ~HasPresentationValues(e.id)}

\* the Record looks as it does when nothing was answered for it
Unenriched(item) ==
    CASE module = "DeviceCompliance" -> item.scheduledActionsForRule = <<>>
      [] module = "GroupPolicyConfigurations" -> item.definitionValues = <<>>
      [] module = "Roles" -> ~Has(item, "roleAssignments")

MissToleratedStageOne ==
    StageOneAnswered =>
        /\ Has(maps, StageOne.map)
        /\ \A e \in DroppedStageOne : ~Has(maps[StageOne.map], e.id)
        /\ \A k \in DOMAIN maps[StageOne.map] :
              \E e \in Answer(StageOne.stage) \ DroppedStageOne :
                  ValueTruthy(e) /\ maps[StageOne.map][k] = e.body.value
        /\ StagesDone =>
              \A i \in 1..Len(graph_data) :
                  /\ EnvelopeOf(graph_data[i].id) \in DroppedStageOne => Unenriched(graph_data[i])
                  /\ CarriesPayload(graph_data[i].id) => Enriched(graph_data[i])
        /\ (DroppedStageOne # {} /\ pc = "done" /\ fault = "none") =>
              /\ ret = "results"
              /\ \E c \in PersistCalls : calls[c].n = Len(primary)

MissToleratedPresentations ==
    Has(responses, "presentationValues") =>
        /\ Has(maps, "presentations_map")
        /\ \A e \in DroppedPresentations : ~Has(maps.presentations_map, e.id)
        /\ StagesDone =>
              \A i \in 1..Len(graph_data) : \A d \in 1..Len(graph_data[i].definitionValues) :
                  LET definition == graph_data[i].definitionValues[d]
                      key == graph_data[i].id \o <<"/", "definitionValues", "/">> \o definition.id
                  IN  /\ (\E e \in DroppedPresentations : e.id = key)
                            => definition.presentationValues = <<>>
                      /\ \A e \in Answer("presentationValues") :
                            (ValueTruthy(e) /\ e.id = key \o <<"/", "presentationValues">>)
                                => definition.presentationValues = e.body.value
        /\ (DroppedPresentations # {} /\ pc = "done" /\ fault = "none") => ret = "results"

\* C14: a stage-1 envelope whose id has no "/" (for the Group Policy
\* presentation stage: no "/presentationValues") adds no entry to the map,
\* its Record looks as if nothing had been answered, the stage raises
\* nothing, the envelopes with a well-formed id are merged into their
\* Records, and a run that meets no other failure persists every Record.
C14_CorrelationMissTolerance == MissToleratedStageOne /\ MissToleratedPresentations

\* Group Policy: the first policy's stage-1 envelope has no "/"; the second
\* policy got two definitions, the presentation envelope of the first has
\* no "/presentationValues", the one of the second is merged
C14_Witness ==
    /\ module = "GroupPolicyConfigurations" /\ pc = "done" /\ ret = "results"
    /\ Len(graph_data) = 2
    /\ \E e \in DroppedStageOne : e.id = graph_data[1].id /\ ValueTruthy(e)
    /\ graph_data[1].definitionValues = <<>>
    /\ Len(graph_data[2].definitionValues) = 2
    /\ \E e \in DroppedPresentations :
          /\ ValueTruthy(e)
          /\ e.id = graph_data[2].id \o <<"/", "definitionValues", "/">>
                        \o graph_data[2].definitionValues[1].id
    /\ graph_data[2].definitionValues[1].presentationValues = <<>>
    /\ graph_data[2].definitionValues[2].presentationValues = <<Presentation>>

====
